---- MODULE Spec2Model ----
(***************************************************************************)
(* A model of src/src/main.ts: the geocoin game's session state (purse,    *)
(* position, movement history), the cache rectangles shown on the map with *)
(* the coin list each popup closes over, the memento store cacheStates,    *)
(* and the event handlers that change them.                                *)
(*                                                                         *)
(* Representation.  A geographic coordinate is kept as its offset from     *)
(* oakesClassroom, counted in units of 1e-5 degrees, so tileDegrees (1e-4  *)
(* degrees) is 10 units.  A luck value in [0,1) is kept in hundredths, so  *)
(* cacheSpawnProbability (0.1) is 10.  A Cell is represented by its key    *)
(* <<i, j>>: the flyweight registry hands out one Cell per key.  A string  *)
(* (the text typed into the deposit field, a registry key, a stored item)  *)
(* is a sequence of one-character strings.                                 *)
(*                                                                         *)
(* Three specifications share the variables.  Spec follows one page        *)
(* session and its event handlers; it leaves the registry and the storage  *)
(* aside.  SpecCells follows the flyweight registry of class Cell under    *)
(* requests for cells.  SpecPersist follows sessions across page loads,    *)
(* with localStorage between them.                                         *)
(***************************************************************************)
EXTENDS Integers, Sequences, FiniteSets, TLC

VARIABLES playerCoins, playerPosition, movementHistory, cacheStates,
          layers, watchers, alertMsg,
          everDisplayed,  \* history variable: the cells a cache was ever displayed for
          cellCache,      \* Cell.cellCache: key -> Cell
          cellsCreated,   \* the number of Cell objects constructed so far
          returned,       \* the Cell the last request returned
          localStorage,   \* the three items saveGameState writes
          page,           \* "live", or "unloading" once beforeunload has fired
          loads           \* the number of page loads after the first

sessionVars == <<playerCoins, playerPosition, movementHistory, cacheStates,
                 layers, watchers, alertMsg, everDisplayed>>
registryVars == <<cellCache, cellsCreated, returned>>
storageVars == <<localStorage, page, loads>>

vars == <<playerCoins, playerPosition, movementHistory, cacheStates,
          layers, watchers, alertMsg, everDisplayed,
          cellCache, cellsCreated, returned, localStorage, page, loads>>

(***************************************************************************)
(* Bounds of the model.                                                    *)
(***************************************************************************)
\* the player stays within MaxRange tiles of the origin on each axis
MaxRange == 2
\* the movement history holds at most MaxHistory positions
MaxHistory == 2
\* the purse holds at most MaxPurse coins
MaxPurse == 4
\* at most MaxLayers rectangles are on the map at once
MaxLayers == 2
\* at most MaxWatchers geolocation watches are registered
MaxWatchers == 1
\* SpecCells: cells are requested with indices within MaxIndex of 0
MaxIndex == 1
\* SpecCells: the registry holds at most MaxCells cells
MaxCells == 3
\* SpecPersist: the page is loaded again at most MaxLoads times
MaxLoads == 1

(***************************************************************************)
(* Program constants.                                                      *)
(***************************************************************************)
latLng(lat, lng) == [lat |-> lat, lng |-> lng]

oakesClassroom == latLng(0, 0)
tileDegrees == 10
neighborhoodSize == 8
cacheSpawnProbability == 10

(***************************************************************************)
(* luck.ts: a pure function from a key to [0,1), here in hundredths.  The  *)
(* keys main.ts builds are "i,j" (the spawn trial) and "i,j,initialValue"  *)
(* (the initial coin draw); they are modelled as <<i, j>> and              *)
(* <<i, j, "initialValue">>.  The trial passes on the cells of LuckyCells. *)
(***************************************************************************)
LuckyCells == {<<8, 0>>, <<9, -3>>}

luck(key) ==
    LET i == key[1]
        j == key[2]
    IN  IF Len(key) = 2
        THEN IF <<i, j>> \in LuckyCells
             THEN (3 * i + 7 * j) % 10
             ELSE 10 + ((17 * i + 29 * j) % 90)
        ELSE (13 * i + 31 * j + 10) % 100

(***************************************************************************)
(* Cells.                                                                  *)
(***************************************************************************)
\* Math.round(n / d) for d > 0: the nearest integer, halves towards +infinity
MathRound(n, d) == (2 * n + d) \div (2 * d)

Cell_fromLatLng(lat, lng) ==
    <<MathRound(lat - oakesClassroom.lat, tileDegrees),
      MathRound(lng - oakesClassroom.lng, tileDegrees)>>

Cell_fromCoordinates(i, j) == <<i, j>>

\* toLatLng giving the centre of the cell instead of its origin corner
Cell_toLatLng_center(cell) ==
    latLng(oakesClassroom.lat + cell[1] * tileDegrees + (tileDegrees \div 2),
           oakesClassroom.lng + cell[2] * tileDegrees + (tileDegrees \div 2))

Cell_toLatLng(cell) ==
    latLng(oakesClassroom.lat + cell[1] * tileDegrees,
           oakesClassroom.lng + cell[2] * tileDegrees)

(***************************************************************************)
(* Caches.  A rectangle on the map carries the cell it was spawned for and *)
(* the coin list its popup handlers close over; a coin is its serial (its  *)
(* cell is always the cache's cell).                                       *)
(***************************************************************************)
spawnCache(cell) ==
    LET cacheCoinsCount == (luck(<<cell[1], cell[2], "initialValue">>) \div 10) + 1
    IN  [cell |-> cell, coins |-> [index \in 1..cacheCoinsCount |-> index - 1]]

\* The two nested loops over the neighbourhood visit Side * Side offsets;
\* Offset(k) is the (i, j) of the k-th iteration, i outermost.
Side == 2 * neighborhoodSize + 1
Offset(k) == <<((k - 1) \div Side) - neighborhoodSize,
               ((k - 1) % Side) - neighborhoodSize>>

\* the offsets of all iterations, as a sequence
offsets == SelectSeq([k \in 1..(Side * Side) |-> Offset(k)], LAMBDA o : TRUE)

\* the cells the loops visit around a centre cell, in loop order
Window(centerCell) ==
    [k \in 1..(Side * Side) |->
        Cell_fromCoordinates(centerCell[1] + offsets[k][1], centerCell[2] + offsets[k][2])]

\* the spawn trial of a cell
Lucky(cell) == luck(<<cell[1], cell[2]>>) < cacheSpawnProbability

\* initializeCaches walks the window around cell (0, 0) whatever the player's
\* position, adds a rectangle for each lucky cell and removes none
initialRectangles ==
    LET cells == SelectSeq(Window(<<0, 0>>), Lucky)
    IN  [k \in DOMAIN cells |-> spawnCache(cells[k])]

initializeCaches(ls) == ls \o initialRectangles

(***************************************************************************)
(* Memento store.                                                          *)
(***************************************************************************)
saveCacheState(states, cell) ==
    IF cell \in DOMAIN states
    THEN [states EXCEPT ![cell] = states[cell]]
    ELSE states

restoreCacheState(states, cell) ==
    IF cell \in DOMAIN states
    THEN [found |-> TRUE, coins |-> states[cell]]
    ELSE [found |-> FALSE, coins |-> <<>>]

(***************************************************************************)
(* Regeneration: the result is the rectangles on the map and the store.    *)
(***************************************************************************)
\* saveCacheState applied to each cell of a sequence in turn
RECURSIVE saveAll(_, _)
saveAll(states, cells) ==
    IF cells = <<>> THEN states
    ELSE saveAll(saveCacheState(states, Head(cells)), Tail(cells))

\* regenerateCaches without the removal of the rectangles already on the map
regenerateCaches_noClear(currentCell, ls, states) ==
    LET cells == SelectSeq(Window(currentCell), Lucky)
    IN  [layers |-> ls \o [k \in DOMAIN cells |-> spawnCache(cells[k])],
         cacheStates |-> states]

\* regenerateCaches with the spawn trial keyed by the loop offsets (i, j), as
\* in initializeCaches, instead of the cell's coordinates
regenerateCaches_offsetKey(currentCell, ls, states) ==
    LET cells == SelectSeq(Window(<<0, 0>>), Lucky)
    IN  [layers |-> [k \in DOMAIN cells |->
                        spawnCache(<<currentCell[1] + cells[k][1],
                                     currentCell[2] + cells[k][2]>>)],
         cacheStates |-> states]

\* regenerateCaches with the outer loop running one row further (i up to
\* neighborhoodSize + 1)
regenerateCaches_wideWindow(currentCell, ls, states) ==
    LET extraRow == [k \in 1..Side |->
                        Cell_fromCoordinates(currentCell[1] + neighborhoodSize + 1,
                                             currentCell[2] + k - 1 - neighborhoodSize)]
        cells == SelectSeq(Window(currentCell) \o extraRow, Lucky)
    IN  [layers |-> [k \in DOMAIN cells |-> spawnCache(cells[k])],
         cacheStates |-> states]

\* Every rectangle is removed from the map, then the window is walked.  A
\* cell is visited once and the store changes only at the visited cell, so
\* each cell's branch is decided by the store as it was on entry.
regenerateCaches(currentCell, ls, states) ==
    LET window == Window(currentCell)
        FirstSpawn(cell) == cell \notin DOMAIN states /\ Lucky(cell)
        Restored(cell) == cell \in DOMAIN states /\ restoreCacheState(states, cell).found
        Shown(cell) == FirstSpawn(cell) \/ Restored(cell)
        cells == SelectSeq(window, Shown)
    IN  [layers |-> [k \in DOMAIN cells |-> spawnCache(cells[k])],
         cacheStates |-> saveAll(states, SelectSeq(cells, FirstSpawn))]

(***************************************************************************)
(* The deposit field.  parseInt reads an optional sign and the longest run *)
(* of decimal digits after leading blanks and stops at the first other     *)
(* character; with no digit it yields NaN.                                 *)
(***************************************************************************)
DigitChars == <<"0", "1", "2", "3", "4", "5", "6", "7", "8", "9">>
IsDigit(c) == \E d \in 1..10 : DigitChars[d] = c
DigitVal(c) == (CHOOSE d \in 1..10 : DigitChars[d] = c) - 1

\* the number of leading blanks of s from index k on
RECURSIVE BlankRun(_, _)
BlankRun(s, k) == IF k <= Len(s) /\ s[k] = " " THEN 1 + BlankRun(s, k + 1) ELSE 0

\* the number of consecutive digits of s from index k on
RECURSIVE DigitRun(_, _)
DigitRun(s, k) == IF k <= Len(s) /\ IsDigit(s[k]) THEN 1 + DigitRun(s, k + 1) ELSE 0

\* the decimal value of the n digits of s from index k on
RECURSIVE DecimalValue(_, _, _)
DecimalValue(s, k, n) ==
    IF n = 0 THEN 0 ELSE DecimalValue(s, k, n - 1) * 10 + DigitVal(s[k + n - 1])

NaN == [nan |-> TRUE, val |-> 0]
Num(v) == [nan |-> FALSE, val |-> v]

parseInt(s) ==
    LET p == BlankRun(s, 1) + 1
        signed == p <= Len(s) /\ s[p] \in {"+", "-"}
        neg == p <= Len(s) /\ s[p] = "-"
        q == IF signed THEN p + 1 ELSE p
        n == DigitRun(s, q)
    IN  IF n = 0 THEN NaN
        ELSE Num((IF neg THEN -1 ELSE 1) * DecimalValue(s, q, n))

(***************************************************************************)
(* The number a string in the field denotes (the number input's            *)
(* valueAsNumber): an optional "-", digits with an optional fraction, and  *)
(* an optional exponent.  It is kept as the fraction num / den; a string   *)
(* that is no such number (the empty field among them) is not valid.       *)
(***************************************************************************)
valueAsNumber(s) ==
    LET neg == Len(s) >= 1 /\ s[1] = "-"
        a == IF neg THEN 2 ELSE 1
        nInt == DigitRun(s, a)
        b == a + nInt
        hasFrac == b <= Len(s) /\ s[b] = "."
        nFrac == IF hasFrac THEN DigitRun(s, b + 1) ELSE 0
        c == IF hasFrac THEN b + 1 + nFrac ELSE b
        hasExp == c <= Len(s) /\ s[c] \in {"e", "E"}
        expSigned == hasExp /\ c + 1 <= Len(s) /\ s[c + 1] \in {"+", "-"}
        expNeg == hasExp /\ c + 1 <= Len(s) /\ s[c + 1] = "-"
        d == IF hasExp THEN (IF expSigned THEN c + 2 ELSE c + 1) ELSE c
        nExp == IF hasExp THEN DigitRun(s, d) ELSE 0
        mant == DecimalValue(s, a, nInt) * (10 ^ nFrac) + DecimalValue(s, b + 1, nFrac)
        e == (IF expNeg THEN -1 ELSE 1) * DecimalValue(s, d, nExp) - nFrac
    IN  [valid |-> /\ nInt > 0 \/ nFrac > 0
                   /\ hasFrac => nFrac > 0
                   /\ hasExp => nExp > 0
                   /\ d + nExp = Len(s) + 1,
         num |-> (IF neg THEN -1 ELSE 1) * mant * (10 ^ (IF e > 0 THEN e ELSE 0)),
         den |-> 10 ^ (IF e < 0 THEN -e ELSE 0)]

\* the strings typed into the deposit field in this model
DepositInputs ==
    { <<>>, <<"0">>, <<"3">>, <<"-", "1">>, <<"2", "0">>,
      <<"1", "e", "1">>, <<"0", ".", "3", "e", "1">>, <<".", "5">> }

\* the cells of the rectangles on the map, in map order
cellsOf(ls) == [k \in DOMAIN ls |-> ls[k].cell]
\* the cells some rectangle on the map is displayed for
displayedCells(ls) == {ls[k].cell : k \in DOMAIN ls}

(***************************************************************************)
(* Alerts: the last handler's alert, or NoAlert when it raised none.       *)
(***************************************************************************)
NoAlert == [text |-> "", n |-> 0]
Alert(text, n) == [text |-> text, n |-> n]

(***************************************************************************)
(* The flyweight registry of class Cell.  A Cell object is its two fields  *)
(* and id, the number of its construction, which stands for its identity.  *)
(* A registry is the map cellCache with the count of cells constructed; a  *)
(* request gives the registry after it and the Cell it returns.            *)
(***************************************************************************)
\* the decimal digits of a natural number
RECURSIVE digitsOf(_)
digitsOf(n) ==
    IF n < 10 THEN <<DigitChars[n + 1]>>
    ELSE digitsOf(n \div 10) \o <<DigitChars[(n % 10) + 1]>>

\* the text of an integer, as a template literal or toString gives it
NumberToString(n) == IF n < 0 THEN <<"-">> \o digitsOf(-n) ELSE digitsOf(n)

\* `${i}:${j}`
cellKey(i, j) == NumberToString(i) \o <<":">> \o NumberToString(j)

\* Map.set
MapSet(map, key, value) ==
    [k \in DOMAIN map \cup {key} |-> IF k = key THEN value ELSE map[k]]

registry_fromCoordinates(registry, i, j) ==
    LET key == cellKey(i, j)
        created == [id |-> registry.cellsCreated + 1, i |-> i, j |-> j]
        after == IF key \notin DOMAIN registry.cellCache
                 THEN [cellCache |-> MapSet(registry.cellCache, key, created),
                       cellsCreated |-> registry.cellsCreated + 1]
                 ELSE registry
    IN  [cellCache |-> after.cellCache, cellsCreated |-> after.cellsCreated,
         cell |-> after.cellCache[key]]

\* fromLatLng with a Cell constructed and set on every call
registry_fromLatLng_alwaysNew(registry, lat, lng) ==
    LET i == MathRound(lat - oakesClassroom.lat, tileDegrees)
        j == MathRound(lng - oakesClassroom.lng, tileDegrees)
        key == cellKey(i, j)
        created == [id |-> registry.cellsCreated + 1, i |-> i, j |-> j]
    IN  [cellCache |-> MapSet(registry.cellCache, key, created),
         cellsCreated |-> registry.cellsCreated + 1,
         cell |-> created]

registry_fromLatLng(registry, lat, lng) ==
    LET i == MathRound(lat - oakesClassroom.lat, tileDegrees)
        j == MathRound(lng - oakesClassroom.lng, tileDegrees)
        key == cellKey(i, j)
        created == [id |-> registry.cellsCreated + 1, i |-> i, j |-> j]
        after == IF key \notin DOMAIN registry.cellCache
                 THEN [cellCache |-> MapSet(registry.cellCache, key, created),
                       cellsCreated |-> registry.cellsCreated + 1]
                 ELSE registry
    IN  [cellCache |-> after.cellCache, cellsCreated |-> after.cellsCreated,
         cell |-> after.cellCache[key]]

\* the registry once initializeCaches has asked for the cells it spawns a
\* cache for
RECURSIVE registerAll(_, _)
registerAll(registry, cells) ==
    IF cells = <<>> THEN registry
    ELSE LET r == registry_fromCoordinates(registry, Head(cells)[1], Head(cells)[2])
         IN  registerAll([cellCache |-> r.cellCache, cellsCreated |-> r.cellsCreated],
                         Tail(cells))

initialRegistry ==
    registerAll([cellCache |-> <<>>, cellsCreated |-> 0], cellsOf(initialRectangles))

(***************************************************************************)
(* Persistence.  saveGameState writes three items; loadGameState reads     *)
(* them into a session.  A coordinate is written as the text of its whole  *)
(* number of units.                                                        *)
(***************************************************************************)
\* an item of localStorage: getItem gives null for an item never set
null == [present |-> FALSE, text |-> <<>>]
Item(text) == [present |-> TRUE, text |-> text]
emptyStorage == [playerPosition |-> null, playerCoins |-> null, movementHistory |-> null]
\* a null and an empty text are falsy
Truthy(item) == item.present /\ item.text # <<>>

\* the first index from k on at which the text has character c, or 0
IndexOf(text, c, k) ==
    LET at == {x \in k..Len(text) : text[x] = c}
    IN  IF at = {} THEN 0 ELSE CHOOSE x \in at : \A y \in at : x <= y

\* String.prototype.split with a one-character separator
RECURSIVE split(_, _)
split(text, separator) ==
    LET p == IndexOf(text, separator, 1)
    IN  IF p = 0 THEN <<text>>
        ELSE <<SubSeq(text, 1, p - 1)>> \o split(SubSeq(text, p + 1, Len(text)), separator)

\* Number(text) for the texts of whole numbers of units: the empty text is
\* 0, an optional sign and digits up to the end are their value, any other
\* text is NaN (a text with a fraction or an exponent has no value in this
\* representation and is never written)
ToNumber(text) ==
    LET q == IF text # <<>> /\ text[1] \in {"+", "-"} THEN 2 ELSE 1
        n == DigitRun(text, q)
    IN  IF text = <<>> THEN Num(0)
        ELSE IF n > 0 /\ q + n = Len(text) + 1
             THEN Num((IF text[1] = "-" THEN -1 ELSE 1) * DecimalValue(text, q, n))
             ELSE NaN

\* .map(Number)
mapNumber(texts) == [n \in DOMAIN texts |-> ToNumber(texts[n])]

\* JSON.stringify of an array of [lat, lng] pairs
RECURSIVE joinPairs(_)
joinPairs(positions) ==
    IF positions = <<>> THEN <<>>
    ELSE LET pair == <<"[">> \o NumberToString(Head(positions).lat) \o <<",">>
                     \o NumberToString(Head(positions).lng) \o <<"]">>
         IN  IF Len(positions) = 1 THEN pair
             ELSE pair \o <<",">> \o joinPairs(Tail(positions))

JSON_stringify(positions) == <<"[">> \o joinPairs(positions) \o <<"]">>

\* JSON.parse of an array of pairs of numbers, mapped to latLng: the pairs
\* of the text from index k on, each read up to its closing bracket
RECURSIVE parsePairs(_, _)
parsePairs(text, k) ==
    IF k > Len(text) \/ text[k] # "[" THEN <<>>
    ELSE LET close == IndexOf(text, "]", k)
             pair == mapNumber(split(SubSeq(text, k + 1, close - 1), ","))
         IN  <<latLng(pair[1].val, pair[2].val)>> \o parsePairs(text, close + 2)

JSON_parse(text) == parsePairs(SubSeq(text, 2, Len(text) - 1), 1)

\* saveGameState with the longitude written before the latitude
saveGameState_lngLat(position, coins, history) ==
    [playerPosition |-> Item(NumberToString(position.lng) \o <<",">>
                                \o NumberToString(position.lat)),
     playerCoins |-> Item(NumberToString(coins)),
     movementHistory |-> Item(JSON_stringify(history))]

saveGameState(position, coins, history) ==
    [playerPosition |-> Item(NumberToString(position.lat) \o <<",">>
                                \o NumberToString(position.lng)),
     playerCoins |-> Item(NumberToString(coins)),
     movementHistory |-> Item(JSON_stringify(history))]

\* the session (position, coins, history) after loadGameState
loadGameState(storage, position, coins, history) ==
    LET numbers == mapNumber(split(storage.playerPosition.text, ","))
    IN  [playerPosition |->
            IF Truthy(storage.playerPosition)
            THEN latLng(numbers[1].val, numbers[2].val)
            ELSE position,
         playerCoins |->
            IF Truthy(storage.playerCoins)
            THEN parseInt(storage.playerCoins.text).val
            ELSE coins,
         movementHistory |->
            IF Truthy(storage.movementHistory)
            THEN history \o JSON_parse(storage.movementHistory.text)
            ELSE history]

\* no Cell returned yet
NoCell == [id |-> 0, i |-> 0, j |-> 0]
Init ==
    /\ playerCoins = 0
    /\ playerPosition = oakesClassroom
    /\ movementHistory = <<>>
    /\ cacheStates = <<>>
    /\ layers = initializeCaches(<<>>)
    /\ watchers = 0
    /\ alertMsg = NoAlert
    /\ everDisplayed = displayedCells(layers)
    /\ cellCache = initialRegistry.cellCache
    /\ cellsCreated = initialRegistry.cellsCreated
    /\ returned = NoCell
    /\ localStorage = emptyStorage
    /\ page = "live"
    /\ loads = 0

(***************************************************************************)
(* Collect button of the popup of rectangle k.  The comparison with        *)
(* MaxPurse is the model's bound; the handler has no such test.            *)
(***************************************************************************)
\* collectButton without the emptying of the coin list
collectButton_keepsCoins(k) ==
    /\ k \in DOMAIN layers
    /\ playerCoins + Len(layers[k].coins) <= MaxPurse
    /\ IF Len(layers[k].coins) > 0
       THEN /\ playerCoins' = playerCoins + Len(layers[k].coins)
            /\ alertMsg' = Alert("Collected successfully!", 0)
            /\ UNCHANGED layers
       ELSE /\ alertMsg' = Alert("No coins left.", 0)
            /\ UNCHANGED <<playerCoins, layers>>
    /\ UNCHANGED <<playerPosition, movementHistory, cacheStates, watchers, everDisplayed>>

collectButton(k) ==
    /\ k \in DOMAIN layers
    /\ playerCoins + Len(layers[k].coins) <= MaxPurse
    /\ IF Len(layers[k].coins) > 0
       THEN /\ playerCoins' = playerCoins + Len(layers[k].coins)
            /\ layers' = [layers EXCEPT ![k].coins = <<>>]
            /\ alertMsg' = Alert("Collected successfully!", 0)
       ELSE /\ alertMsg' = Alert("No coins left.", 0)
            /\ UNCHANGED <<playerCoins, layers>>
    /\ UNCHANGED <<playerPosition, movementHistory, cacheStates, watchers, everDisplayed>>

(***************************************************************************)
(* Deposit button of the popup of rectangle k, with value in the field.    *)
(***************************************************************************)
\* depositButton without the comparison of the amount with the purse
depositButton_noPurseCheck(k, value) ==
    /\ k \in DOMAIN layers
    /\ LET depositAmount == parseInt(IF value = <<>> THEN <<"0">> ELSE value)
           coins == layers[k].coins
       IN  IF /\ ~depositAmount.nan
              /\ depositAmount.val > 0
           THEN /\ playerCoins' = playerCoins - depositAmount.val
                /\ layers' = [layers EXCEPT ![k].coins =
                                 coins \o [index \in 1..depositAmount.val |->
                                              Len(coins) + index - 1]]
                /\ alertMsg' = Alert("Deposited coins successfully!", depositAmount.val)
           ELSE /\ alertMsg' = Alert("Insufficient coins or invalid amount.", 0)
                /\ UNCHANGED <<playerCoins, layers>>
    /\ UNCHANGED <<playerPosition, movementHistory, cacheStates, watchers, everDisplayed>>

\* depositButton without the subtraction from the purse
depositButton_keepsPurse(k, value) ==
    /\ k \in DOMAIN layers
    /\ LET depositAmount == parseInt(IF value = <<>> THEN <<"0">> ELSE value)
           coins == layers[k].coins
       IN  IF /\ ~depositAmount.nan
              /\ playerCoins >= depositAmount.val
              /\ depositAmount.val > 0
           THEN /\ layers' = [layers EXCEPT ![k].coins =
                                 coins \o [index \in 1..depositAmount.val |->
                                              Len(coins) + index - 1]]
                /\ alertMsg' = Alert("Deposited coins successfully!", depositAmount.val)
                /\ UNCHANGED playerCoins
           ELSE /\ alertMsg' = Alert("Insufficient coins or invalid amount.", 0)
                /\ UNCHANGED <<playerCoins, layers>>
    /\ UNCHANGED <<playerPosition, movementHistory, cacheStates, watchers, everDisplayed>>

\* depositButton with the serial of a new coin taken from its index alone
depositButton_serialFromIndex(k, value) ==
    /\ k \in DOMAIN layers
    /\ LET depositAmount == parseInt(IF value = <<>> THEN <<"0">> ELSE value)
           coins == layers[k].coins
       IN  IF /\ ~depositAmount.nan
              /\ playerCoins >= depositAmount.val
              /\ depositAmount.val > 0
           THEN /\ playerCoins' = playerCoins - depositAmount.val
                /\ layers' = [layers EXCEPT ![k].coins =
                                 coins \o [index \in 1..depositAmount.val |-> index - 1]]
                /\ alertMsg' = Alert("Deposited coins successfully!", depositAmount.val)
           ELSE /\ alertMsg' = Alert("Insufficient coins or invalid amount.", 0)
                /\ UNCHANGED <<playerCoins, layers>>
    /\ UNCHANGED <<playerPosition, movementHistory, cacheStates, watchers, everDisplayed>>

depositButton(k, value) ==
    /\ k \in DOMAIN layers
    /\ LET depositAmount == parseInt(IF value = <<>> THEN <<"0">> ELSE value)
           coins == layers[k].coins
       IN  IF /\ ~depositAmount.nan
              /\ playerCoins >= depositAmount.val
              /\ depositAmount.val > 0
           THEN /\ playerCoins' = playerCoins - depositAmount.val
                /\ layers' = [layers EXCEPT ![k].coins =
                                 coins \o [index \in 1..depositAmount.val |->
                                              Len(coins) + index - 1]]
                /\ alertMsg' = Alert("Deposited coins successfully!", depositAmount.val)
           ELSE /\ alertMsg' = Alert("Insufficient coins or invalid amount.", 0)
                /\ UNCHANGED <<playerCoins, layers>>
    /\ UNCHANGED <<playerPosition, movementHistory, cacheStates, watchers, everDisplayed>>

(***************************************************************************)
(* Movement buttons.  InRange and the comparison with MaxHistory are the   *)
(* model's bounds.  The handler regenerates before it records the          *)
(* position; the two touch different state.                                *)
(***************************************************************************)
\* directions with latitude and longitude exchanged
directions_swapped ==
    [north |-> latLng(0, tileDegrees),
     south |-> latLng(0, -tileDegrees),
     east  |-> latLng(tileDegrees, 0),
     west  |-> latLng(-tileDegrees, 0)]

directions ==
    [north |-> latLng(tileDegrees, 0),
     south |-> latLng(-tileDegrees, 0),
     east  |-> latLng(0, tileDegrees),
     west  |-> latLng(0, -tileDegrees)]

Abs(n) == IF n < 0 THEN -n ELSE n
InRange(pos) ==
    /\ Abs(pos.lat) <= MaxRange * tileDegrees
    /\ Abs(pos.lng) <= MaxRange * tileDegrees

\* movePlayer with the new position assigned as the whole history instead of
\* pushed onto it
movePlayer_overwritesHistory(direction) ==
    LET newPosition == latLng(playerPosition.lat + direction.lat,
                              playerPosition.lng + direction.lng)
        newCell == Cell_fromLatLng(newPosition.lat, newPosition.lng)
        regenerated == regenerateCaches(newCell, layers, cacheStates)
    IN  /\ InRange(newPosition)
        /\ Len(movementHistory) < MaxHistory
        /\ playerPosition' = newPosition
        /\ layers' = regenerated.layers
        /\ cacheStates' = regenerated.cacheStates
        /\ movementHistory' = <<newPosition>>
        /\ alertMsg' = NoAlert
        /\ everDisplayed' = everDisplayed \cup displayedCells(regenerated.layers)
        /\ UNCHANGED <<playerCoins, watchers>>

movePlayer(direction) ==
    LET newPosition == latLng(playerPosition.lat + direction.lat,
                              playerPosition.lng + direction.lng)
        newCell == Cell_fromLatLng(newPosition.lat, newPosition.lng)
        regenerated == regenerateCaches(newCell, layers, cacheStates)
    IN  /\ InRange(newPosition)
        /\ Len(movementHistory) < MaxHistory
        /\ playerPosition' = newPosition
        /\ layers' = regenerated.layers
        /\ cacheStates' = regenerated.cacheStates
        /\ movementHistory' = Append(movementHistory, newPosition)
        /\ alertMsg' = NoAlert
        /\ everDisplayed' = everDisplayed \cup displayedCells(regenerated.layers)
        /\ UNCHANGED <<playerCoins, watchers>>

(***************************************************************************)
(* Globe button and the watchPosition callback it registers.  geolocation  *)
(* tells whether the browser offers navigator.geolocation.  Every click    *)
(* registers one more watch (up to the model's bound MaxWatchers); a       *)
(* delivered position runs the callback, which does not regenerate.        *)
(***************************************************************************)
globeButton(geolocation) ==
    /\ IF geolocation
       THEN /\ watchers < MaxWatchers
            /\ watchers' = watchers + 1
            /\ alertMsg' = NoAlert
       ELSE /\ alertMsg' = Alert("Geolocation is not supported by this browser.", 0)
            /\ UNCHANGED watchers
    /\ UNCHANGED <<playerCoins, playerPosition, movementHistory, cacheStates, layers,
                   everDisplayed>>

\* the positions the geolocation source reports in this model
GeoFixes == {latLng(5, -5)}

watchPositionCallback(position) ==
    /\ watchers > 0
    /\ Len(movementHistory) < MaxHistory
    /\ playerPosition' = latLng(position.lat, position.lng)
    /\ movementHistory' = Append(movementHistory, playerPosition')
    /\ alertMsg' = NoAlert
    /\ UNCHANGED <<playerCoins, cacheStates, layers, watchers, everDisplayed>>

(***************************************************************************)
(* Reset button; confirm is the answer to the confirmation dialog.  The    *)
(* handler calls initializeCaches on the map as it is, and leaves          *)
(* cacheStates alone.  The comparison with MaxLayers is the model's bound. *)
(***************************************************************************)
resetButton(confirm) ==
    IF confirm
    THEN /\ Len(layers) + Len(initialRectangles) <= MaxLayers
         /\ playerCoins' = 0
         /\ playerPosition' = oakesClassroom
         /\ movementHistory' = <<>>
         /\ layers' = initializeCaches(layers)
         /\ alertMsg' = NoAlert
         /\ everDisplayed' = everDisplayed \cup displayedCells(initializeCaches(layers))
         /\ UNCHANGED <<cacheStates, watchers>>
    ELSE /\ alertMsg' = NoAlert
         /\ UNCHANGED <<playerCoins, playerPosition, movementHistory,
                        cacheStates, layers, watchers, everDisplayed>>

\* what an event of the page session leaves alone
idle == UNCHANGED <<registryVars, storageVars>>

Next ==
    \/ \E k \in DOMAIN layers : collectButton(k) /\ idle
    \/ \E k \in DOMAIN layers : \E value \in DepositInputs : depositButton(k, value) /\ idle
    \/ movePlayer(directions.north) /\ idle
    \/ movePlayer(directions.south) /\ idle
    \/ movePlayer(directions.east) /\ idle
    \/ movePlayer(directions.west) /\ idle
    \/ \E geolocation \in BOOLEAN : globeButton(geolocation) /\ idle
    \/ \E position \in GeoFixes : watchPositionCallback(position) /\ idle
    \/ \E confirm \in BOOLEAN : resetButton(confirm) /\ idle

Spec == Init /\ [][Next]_vars

(***************************************************************************)
(* SpecCells: requests to the two static methods of class Cell, with the   *)
(* indices and the coordinates (in steps of half a tile) drawn from        *)
(* bounded sets.  The comparison with MaxCells is the model's bound.       *)
(***************************************************************************)
Indices == (-MaxIndex)..MaxIndex
Coordinates == {h * (tileDegrees \div 2) : h \in (-2 * MaxIndex)..(2 * MaxIndex)}

fromCoordinates(i, j) ==
    LET r == registry_fromCoordinates(
                 [cellCache |-> cellCache, cellsCreated |-> cellsCreated], i, j)
    IN  /\ Cardinality(DOMAIN r.cellCache) <= MaxCells
        /\ cellCache' = r.cellCache
        /\ cellsCreated' = r.cellsCreated
        /\ returned' = r.cell
        /\ UNCHANGED <<sessionVars, storageVars>>

fromLatLng(lat, lng) ==
    LET r == registry_fromLatLng(
                 [cellCache |-> cellCache, cellsCreated |-> cellsCreated], lat, lng)
    IN  /\ Cardinality(DOMAIN r.cellCache) <= MaxCells
        /\ cellCache' = r.cellCache
        /\ cellsCreated' = r.cellsCreated
        /\ returned' = r.cell
        /\ UNCHANGED <<sessionVars, storageVars>>

NextCells ==
    \/ \E i \in Indices : \E j \in Indices : fromCoordinates(i, j)
    \/ \E lat \in Coordinates : \E lng \in Coordinates : fromLatLng(lat, lng)

SpecCells == Init /\ [][NextCells]_vars

(***************************************************************************)
(* SpecPersist: sessions across page loads.  beforeunload runs             *)
(* saveGameState as the page goes away; the next page load starts the      *)
(* script anew (fresh variables, empty map and registry), runs             *)
(* initializeCaches and then loadGameState.  The comparison with MaxLoads  *)
(* is the model's bound.                                                   *)
(***************************************************************************)
beforeunload ==
    /\ page = "live"
    /\ localStorage' = saveGameState(playerPosition, playerCoins, movementHistory)
    /\ page' = "unloading"
    /\ UNCHANGED <<sessionVars, registryVars, loads>>

pageLoad ==
    LET loaded == loadGameState(localStorage, oakesClassroom, 0, <<>>)
    IN  /\ page = "unloading"
        /\ loads < MaxLoads
        /\ cacheStates' = <<>>
        /\ layers' = initializeCaches(<<>>)
        /\ watchers' = 0
        /\ alertMsg' = NoAlert
        /\ everDisplayed' = displayedCells(initializeCaches(<<>>))
        /\ cellCache' = initialRegistry.cellCache
        /\ cellsCreated' = initialRegistry.cellsCreated
        /\ returned' = NoCell
        /\ playerPosition' = loaded.playerPosition
        /\ playerCoins' = loaded.playerCoins
        /\ movementHistory' = loaded.movementHistory
        /\ page' = "live"
        /\ loads' = loads + 1
        /\ UNCHANGED localStorage

\* the events of a live page that SpecPersist follows
NextPersist ==
    \/ page = "live" /\ \E k \in DOMAIN layers : collectButton(k) /\ idle
    \/ page = "live" /\ movePlayer(directions.north) /\ idle
    \/ page = "live" /\ movePlayer(directions.south) /\ idle
    \/ page = "live" /\ movePlayer(directions.east) /\ idle
    \/ page = "live" /\ movePlayer(directions.west) /\ idle
    \/ page = "live" /\ \E geolocation \in BOOLEAN : globeButton(geolocation) /\ idle
    \/ page = "live" /\ \E position \in GeoFixes : watchPositionCallback(position) /\ idle
    \/ beforeunload
    \/ pageLoad

SpecPersist == Init /\ [][NextPersist]_vars
(***************************************************************************)
(* Vocabulary of the properties.                                           *)
(***************************************************************************)
\* the cell that contains a position
cellOf(pos) == Cell_fromLatLng(pos.lat, pos.lng)
\* a step of one of the four movement buttons
Moved == \E name \in DOMAIN directions : movePlayer(directions[name])
\* the typed amount is a whole number of coins
IsWhole(value) == valueAsNumber(value).valid
                  /\ valueAsNumber(value).num % valueAsNumber(value).den = 0
Amount(value) == valueAsNumber(value).num \div valueAsNumber(value).den
\* the typed amount is non-numeric, empty, zero, negative or above the purse
Rejectable(value, purse) ==
    \/ ~valueAsNumber(value).valid
    \/ valueAsNumber(value).num <= 0
    \/ valueAsNumber(value).num > purse * valueAsNumber(value).den

(***************************************************************************)
(* C1.  A move keeps the coins of every cache: a cache displayed for a     *)
(* cell before a move and again after it holds the coin count it had       *)
(* before the move (a cache collected down to 0 stays at 0).               *)
(***************************************************************************)
C1_CacheDurable ==
    [][Moved =>
         \A a \in DOMAIN layers : \A b \in DOMAIN layers' :
            layers[a].cell = layers'[b].cell
               => Len(layers'[b].coins) = Len(layers[a].coins)]_vars

(***************************************************************************)
(* C2.  After a regenerate, every cache it spawned for a cell that had no  *)
(* entry in cacheStates has one, and the entry is the spawned coin list.   *)
(***************************************************************************)
C2_DecisionRecorded ==
    [][Moved =>
         \A b \in DOMAIN layers' :
            layers'[b].cell \notin DOMAIN cacheStates
               => /\ layers'[b].cell \in DOMAIN cacheStates'
                  /\ cacheStates'[layers'[b].cell] = layers'[b].coins]_vars

(***************************************************************************)
(* C3.  After a collect or a deposit that changed the coin list of cache   *)
(* k, cacheStates holds for that cache's cell a snapshot with the same     *)
(* coin count as the list.                                                 *)
(***************************************************************************)
C3_WriteBack ==
    [][\A k \in DOMAIN layers :
         /\ collectButton(k) \/ \E value \in DepositInputs : depositButton(k, value)
         /\ layers'[k].coins # layers[k].coins
         => /\ layers'[k].cell \in DOMAIN cacheStates'
            /\ Len(cacheStates'[layers'[k].cell]) = Len(layers'[k].coins)]_vars

(***************************************************************************)
(* C4.  Regenerate is idempotent: regenerating once more around the cell   *)
(* a move has just regenerated around displays caches for the same cells,  *)
(* one rectangle each as before, and leaves cacheStates as it is.          *)
(***************************************************************************)
C4_RegenerateIdempotent ==
    [][Moved =>
         LET again == regenerateCaches(cellOf(playerPosition'), layers', cacheStates')
         IN  /\ cellsOf(again.layers) = cellsOf(layers')
             /\ again.cacheStates = cacheStates']_vars

\* a move has regenerated around a cell with two caches in its window
C4_Witness ==
    /\ movementHistory # <<>>
    /\ playerPosition = movementHistory[Len(movementHistory)]
    /\ alertMsg = NoAlert
    /\ Len(layers) = 2
    /\ cellsOf(layers) = cellsOf(regenerateCaches(cellOf(playerPosition), layers,
                                                  cacheStates).layers)

(***************************************************************************)
(* C5.  Collect on a cache of n > 0 coins adds n to the purse and empties  *)
(* the cache; collect on an empty cache changes neither.                   *)
(***************************************************************************)
C5_Collect ==
    [][\A k \in DOMAIN layers :
         collectButton(k) =>
            IF Len(layers[k].coins) > 0
            THEN /\ playerCoins' = playerCoins + Len(layers[k].coins)
                 /\ Len(layers'[k].coins) = 0
                 /\ \A o \in DOMAIN layers : o # k => layers'[o] = layers[o]
            ELSE /\ playerCoins' = playerCoins
                 /\ layers' = layers]_vars

\* a collect was rejected on an empty cache after an earlier collect filled the purse
C5_Witness ==
    /\ alertMsg.text = "No coins left."
    /\ playerCoins > 0
    /\ \E k \in DOMAIN layers : layers[k].coins = <<>>

(***************************************************************************)
(* C6.  A deposit of a typed amount a with 0 < a <= purse takes a from the *)
(* purse and adds a coins to the cache.                                    *)
(***************************************************************************)
C6_DepositApplies ==
    [][\A k \in DOMAIN layers : \A value \in DepositInputs :
         /\ depositButton(k, value)
         /\ IsWhole(value)
         /\ 0 < Amount(value)
         /\ Amount(value) <= playerCoins
         => /\ playerCoins' = playerCoins - Amount(value)
            /\ Len(layers'[k].coins) = Len(layers[k].coins) + Amount(value)]_vars

(***************************************************************************)
(* C7.  A deposit whose typed amount is non-numeric, empty, zero, negative *)
(* or above the purse changes neither the purse, nor any cache, nor the    *)
(* position, nor the movement history.                                     *)
(***************************************************************************)
C7_RejectedDepositChangesNothing ==
    [][\A k \in DOMAIN layers : \A value \in DepositInputs :
         depositButton(k, value) /\ Rejectable(value, playerCoins)
         => UNCHANGED <<playerCoins, layers, playerPosition, movementHistory>>]_vars

(***************************************************************************)
(* C8.  A geolocation update appends the reported position to the history  *)
(* and leaves displayed the caches of the window centred on the cell that  *)
(* contains it, as a move to that position does.                           *)
(***************************************************************************)
C8_PositionUpdateRegenerates ==
    [][\A position \in GeoFixes :
         watchPositionCallback(position)
         => /\ movementHistory' = Append(movementHistory, position)
            /\ cellsOf(layers') =
                  cellsOf(regenerateCaches(cellOf(position), layers, cacheStates).layers)]_vars

(***************************************************************************)
(* C9.  A cardinal move changes the position by one tile along its axis,   *)
(* leaves the other axis as it is and appends the new position, alone, to  *)
(* the movement history.                                                   *)
(***************************************************************************)
C9_CardinalMove ==
    [][\A name \in DOMAIN directions :
         movePlayer(directions[name])
         => /\ playerPosition'.lat = playerPosition.lat
                  + (CASE name = "north" -> tileDegrees
                       [] name = "south" -> -tileDegrees
                       [] OTHER -> 0)
            /\ playerPosition'.lng = playerPosition.lng
                  + (CASE name = "east" -> tileDegrees
                       [] name = "west" -> -tileDegrees
                       [] OTHER -> 0)
            /\ movementHistory' = Append(movementHistory, playerPosition')]_vars

\* two consecutive north moves from the origin
C9_Witness ==
    /\ movementHistory = <<latLng(tileDegrees, 0), latLng(2 * tileDegrees, 0)>>
    /\ playerPosition = latLng(oakesClassroom.lat + 2 * tileDegrees, oakesClassroom.lng)

(***************************************************************************)
(* C10.  A regenerate displays a cache for every cell of its window that a *)
(* cache was ever displayed for, whatever coins were left in it.           *)
(***************************************************************************)
C10_Redisplayed ==
    [][Moved =>
         \A cell \in everDisplayed :
            (\E k \in DOMAIN offsets :
                cell = <<cellOf(playerPosition')[1] + offsets[k][1],
                         cellOf(playerPosition')[2] + offsets[k][2]>>)
            => cell \in displayedCells(layers')]_vars

\* the cache of cell (8, 0) was emptied, left the window on a move south and
\* is displayed again after the move back north
C10_Witness ==
    /\ playerCoins > 0
    /\ movementHistory = <<latLng(-tileDegrees, 0), latLng(0, 0)>>
    /\ <<8, 0>> \in displayedCells(layers)
(***************************************************************************)
(* Vocabulary of the window properties.                                    *)
(***************************************************************************)
Max(a, b) == IF a >= b THEN a ELSE b
\* Chebyshev distance between two cells
Chebyshev(a, b) == Max(Abs(a[1] - b[1]), Abs(a[2] - b[2]))
\* the cells at Chebyshev distance <= neighborhoodSize from a cell
Neighborhood(centerCell) ==
    {<<centerCell[1] + di, centerCell[2] + dj>> :
        di \in (-neighborhoodSize)..neighborhoodSize,
        dj \in (-neighborhoodSize)..neighborhoodSize}
\* no two rectangles of a sequence are for the same cell
OneRenderingPerCell(ls) ==
    \A a \in DOMAIN ls : \A b \in DOMAIN ls : ls[a].cell = ls[b].cell => a = b

(***************************************************************************)
(* C11.  Right after the regenerate of a move, the rectangles on the map   *)
(* are only the ones this regenerate made: every one is for a cell at      *)
(* Chebyshev distance <= neighborhoodSize from the centre cell, no cell    *)
(* has two, and every cell of that window whose spawn trial succeeds (and  *)
(* that has no entry in cacheStates) has one.                              *)
(***************************************************************************)
C11_RegenerateWindow ==
    [][Moved =>
         LET centerCell == cellOf(playerPosition')
         IN  /\ \A b \in DOMAIN layers' :
                   Chebyshev(layers'[b].cell, centerCell) <= neighborhoodSize
             /\ OneRenderingPerCell(layers')
             /\ \A cell \in Neighborhood(centerCell) :
                   Lucky(cell) /\ cell \notin DOMAIN cacheStates
                      => cell \in displayedCells(layers')]_vars

\* a move south has removed the rectangle of the only cache shown before: its
\* cell is outside the window of the new centre
C11_Witness ==
    /\ movementHistory # <<>>
    /\ playerPosition = movementHistory[Len(movementHistory)]
    /\ cellOf(playerPosition)[1] < 0
    /\ everDisplayed # {}
    /\ layers = <<>>

(***************************************************************************)
(* C12.  The purse is a non-negative integer in every reachable state.     *)
(***************************************************************************)
C12_PurseNonNegative == playerCoins \in Nat

\* a deposit has just taken the whole purse: the purse is exactly 0
C12_Witness ==
    /\ alertMsg.text = "Deposited coins successfully!"
    /\ alertMsg.n > 0
    /\ playerCoins = 0

(***************************************************************************)
(* C16.  The movement history is append-only.                              *)
(***************************************************************************)
IsPrefix(a, b) == Len(a) <= Len(b) /\ SubSeq(b, 1, Len(a)) = a

\* C16 as stated: over every event, a confirmed reset included, the history
\* before the event is a prefix of the history after it.
C16_AppendOnly == [][IsPrefix(movementHistory, movementHistory')]_vars

\* C16 amended: a confirmed reset empties the history; over every other
\* event (move, geolocation update, collect, deposit, globe button, declined
\* reset) the history before the event is a prefix of the history after it.
C16_AppendOnlyUntilReset ==
    [][IF resetButton(TRUE)
       THEN movementHistory' = <<>>
       ELSE IsPrefix(movementHistory, movementHistory')]_vars

\* a move and then a geolocation update have each appended their position,
\* and a later collect has left the two entries in place
C16_Witness ==
    /\ Len(movementHistory) = 2
    /\ movementHistory[1] \notin GeoFixes
    /\ movementHistory[2] \in GeoFixes
    /\ alertMsg.text = "Collected successfully!"

(***************************************************************************)
(* C18.  In every reachable state no grid cell has two rectangles on the   *)
(* map.                                                                    *)
(***************************************************************************)
C18_OneRenderingPerCell == OneRenderingPerCell(layers)

(***************************************************************************)
(* C19.  A collect or a deposit that changed the coin list of cache k      *)
(* leaves the sum of the purse and the coin count of cache k as it was,    *)
(* and leaves every other rectangle (cell and coin list), the position and *)
(* the movement history as they were.                                      *)
(***************************************************************************)
C19_Conservation ==
    [][\A k \in DOMAIN layers :
         /\ collectButton(k) \/ \E value \in DepositInputs : depositButton(k, value)
         /\ layers'[k].coins # layers[k].coins
         => /\ playerCoins' + Len(layers'[k].coins) = playerCoins + Len(layers[k].coins)
            /\ DOMAIN layers' = DOMAIN layers
            /\ \A o \in DOMAIN layers : o # k => layers'[o] = layers[o]
            /\ layers'[k].cell = layers[k].cell
            /\ UNCHANGED <<playerPosition, movementHistory>>]_vars

\* a deposit has moved part of the purse into one of two caches on the map,
\* after a move had been recorded in the history
C19_Witness ==
    /\ alertMsg.text = "Deposited coins successfully!"
    /\ Len(layers) = 2
    /\ playerCoins > 0
    /\ movementHistory # <<>>

(***************************************************************************)
(* C20.  In every reachable state the coins of one coin list have pairwise *)
(* distinct serials.                                                       *)
(***************************************************************************)
C20_DistinctSerials ==
    \A k \in DOMAIN layers :
       \A a \in DOMAIN layers[k].coins : \A b \in DOMAIN layers[k].coins :
          layers[k].coins[a] = layers[k].coins[b] => a = b

\* a deposit has added coins to a cache that still held the coins it was
\* spawned with
C20_Witness ==
    \E k \in DOMAIN layers :
       Len(layers[k].coins) > Len(spawnCache(layers[k].cell).coins)

(***************************************************************************)
(* C14.  For every cell of the registry, toLatLng followed by fromLatLng   *)
(* gives the cell back: the indices computed from the cell's coordinate    *)
(* are the cell's own, and a fromLatLng request with that coordinate       *)
(* returns that very cell.                                                 *)
(***************************************************************************)
C14_CellRoundTrip ==
    [][\A key \in DOMAIN cellCache :
         LET cell == cellCache[key]
             coordinate == Cell_toLatLng(<<cell.i, cell.j>>)
         IN  /\ Cell_fromLatLng(coordinate.lat, coordinate.lng) = <<cell.i, cell.j>>
             /\ fromLatLng(coordinate.lat, coordinate.lng) => returned' = cell]_vars

\* a request has returned a registered cell of negative i and positive j, and
\* the coordinate of that cell leads back to it
C14_Witness ==
    /\ returned.i < 0
    /\ returned.j > 0
    /\ \E key \in DOMAIN cellCache : cellCache[key] = returned
    /\ LET coordinate == Cell_toLatLng(<<returned.i, returned.j>>)
       IN  registry_fromLatLng([cellCache |-> cellCache, cellsCreated |-> cellsCreated],
                               coordinate.lat, coordinate.lng).cell = returned

(***************************************************************************)
(* C15.  The registry holds one Cell per (i, j) and one entry per Cell; a  *)
(* request never removes or replaces an entry; a request for (i, j),       *)
(* through either method, returns the Cell the registry already held for   *)
(* (i, j) if it held one, and otherwise a newly constructed Cell, which    *)
(* the registry holds from then on.                                        *)
(***************************************************************************)
\* the request of this step returns the registry's Cell for (i, j)
Returns(i, j) ==
    /\ returned'.i = i
    /\ returned'.j = j
    /\ \E key \in DOMAIN cellCache' : cellCache'[key] = returned'
    /\ \A key \in DOMAIN cellCache :
          cellCache[key].i = i /\ cellCache[key].j = j => returned' = cellCache[key]
    /\ (\A key \in DOMAIN cellCache : cellCache[key].i # i \/ cellCache[key].j # j)
          => \A key \in DOMAIN cellCache : cellCache[key].id # returned'.id

OneCellPerIndex ==
    \A a \in DOMAIN cellCache : \A b \in DOMAIN cellCache :
       \/ a = b
       \/ /\ cellCache[a].id # cellCache[b].id
          /\ cellCache[a].i # cellCache[b].i \/ cellCache[a].j # cellCache[b].j

C15_Flyweight ==
    [][/\ \A key \in DOMAIN cellCache :
             key \in DOMAIN cellCache' /\ cellCache'[key] = cellCache[key]
       /\ \A i \in Indices : \A j \in Indices : fromCoordinates(i, j) => Returns(i, j)
       /\ \A lat \in Coordinates : \A lng \in Coordinates :
             fromLatLng(lat, lng)
                => Returns(Cell_fromLatLng(lat, lng)[1], Cell_fromLatLng(lat, lng)[2])
       /\ OneCellPerIndex']_vars

\* with several cells registered, a request has returned a Cell constructed
\* before the latest one
C15_Witness ==
    /\ Cardinality(DOMAIN cellCache) >= 3
    /\ returned.id > 0
    /\ returned.id < cellsCreated
    /\ \E key \in DOMAIN cellCache : cellCache[key] = returned

(***************************************************************************)
(* C13.  A page load that finds in localStorage what saveGameState wrote   *)
(* for a session starts the new session with that session's position,      *)
(* purse and movement history (same entries, same order, same length).     *)
(***************************************************************************)
C13_BlobRoundTrip ==
    [][pageLoad
       /\ localStorage = saveGameState(playerPosition, playerCoins, movementHistory)
       => /\ playerPosition' = playerPosition
          /\ playerCoins' = playerCoins
          /\ movementHistory' = movementHistory]_vars

\* a page load has restored a session with a negative coordinate, a purse
\* that is not empty and a history of two positions, and nothing has
\* happened since
C13_Witness ==
    /\ loads > 0
    /\ page = "live"
    /\ playerPosition.lng < 0
    /\ playerCoins > 0
    /\ Len(movementHistory) = 2
    /\ localStorage = saveGameState(playerPosition, playerCoins, movementHistory)
    /\ layers = initializeCaches(<<>>)

(***************************************************************************)
(* C17.  In every reachable state every rectangle on the map is for a cell *)
(* at Chebyshev distance <= neighborhoodSize from the cell that contains   *)
(* the player's position.                                                  *)
(***************************************************************************)
C17_CachesAroundPlayer ==
    \A b \in DOMAIN layers :
       Chebyshev(layers[b].cell, cellOf(playerPosition)) <= neighborhoodSize

====
